---- MODULE Spec2Model ----
(***************************************************************************)
(* Page behaviour controller of themes/laura-theme/static/js/main.js:      *)
(* mobile navigation, scroll-reactive header, contact-form validation,     *)
(* anchor links, logo carousel, contact modal and the script's start.      *)
(*                                                                         *)
(* Handlers run to completion, so every event is one action that runs all  *)
(* the listeners the script registered for it, in registration order.      *)
(* Helper functions of the script are operators from a page state (a       *)
(* record) to the page state after the call; an action commits the state   *)
(* its handler ends in.                                                    *)
(***************************************************************************)
EXTENDS Integers, Sequences, FiniteSets, TLC

\* ------------------------------------------------------------------ bounds
MaxTimers == 3      \* pending setTimeout callbacks
MaxSubmits == 2     \* submit events on the modal's embedded form

\* --------------------------------------------------------------- constants
DesktopWidth == 768
Null == "null"
Triggers == {"contactModalTrigger", "leadMagnetTrigger", "contactTrigger"}
Widths == {767, 768}

VARIABLES
    \* navigation (main.js:16-17 and the attributes the handlers write)
    isMenuOpen,         \* let isMenuOpen
    ariaExpanded,       \* navToggle's aria-expanded attribute
    menuOpenClass,      \* navMenu.classList contains 'nav-menu--open'
    innerWidth,         \* window.innerWidth
    focused,            \* element on which the script last called focus()
    \* modal (closure state of setupModal and what openModal/closeModal write)
    activeModalTrigger, \* let activeModalTrigger
    modalDisplay,       \* modal.style.display
    modalAriaHidden,    \* modal's aria-hidden attribute
    bodyOverflow,       \* document.body.style.overflow
    timers,             \* pending setTimeout callbacks, in scheduling order
    pdfOpened,          \* number of window.open calls made
    navContains,        \* opener controls that lie inside the navigation
    threw,              \* a listener ended with an uncaught exception
    defaultPrevented,   \* preventDefault was called on the last event
    effects,            \* window.open / closeModal calls of the last event
    \* contact form (the DOM that setupFormEnhancements works on)
    fields,             \* the form's inputs and textareas, in document order
    errorElements,      \* the 'field-error' elements, in document order
    submitCancelled,    \* defaultPrevented of the last submit event
    \* scroll-reactive header (main.js:16 and the closure of setupScrollBehavior)
    scrollY,            \* window.scrollY
    lastScrollY,        \* let lastScrollY
    heroHeight,         \* hero.offsetHeight
    ticking,            \* let ticking
    rafPending,         \* updateNavigation callbacks requested and not yet run
    scrollPending,      \* a scroll event is waiting to be dispatched
    navHidden,          \* navigation.classList contains 'hidden'
    \* logo carousel (setupLogoCarousel)
    trackChildren,      \* track.children
    logoCount,          \* const logoCount
    cloneIndex,         \* the clone loop's i
    animationName,      \* track.style: animation-name set by 'animation'
    animationPlayState, \* track.style.animationPlayState
    reducedMotion,      \* prefersReducedMotion.matches
    hovering,           \* the pointer is over the carousel
    focusInside,        \* keyboard focus is inside the carousel
    \* the document and the script's start (main.js:10-13 and 433-438)
    present,            \* elements of the document once it is ready
    found,              \* elements the lookups of lines 10-13 returned
    docPhase,           \* "parsing", "parsed", "contentLoaded", "complete"
    evaluated,          \* the script has been evaluated
    listening,          \* init is registered for DOMContentLoaded
    initRuns,           \* number of runs of init
    wired,              \* features whose setup registered its listeners
    \* same-page anchor links (setupAccessibilityFeatures)
    targetIds,          \* ids of the elements of the document
    anchorPrevented,    \* preventDefault was called on the last link click
    anchorLog,          \* calls the last link click made on its target
    \* cards that embed a link (setupAccessibilityFeatures)
    cards,              \* per card: card.querySelector('a') found a link
    linkClicks,         \* per card: click() calls made on its link
    keyPrevented,       \* preventDefault was called on the last key press
    \* listeners that are running, outermost first
    stack,
    \* history of the run (not program state)
    lastField,          \* the field the last form event was dispatched on
    shownFrom,          \* per field: its annotations before its error was shown
    phase,              \* scroll scenario: "free", "down" or "up"
    coalesced,          \* scroll events handled since the last header update
    lastEvent,          \* the event handled last
    lastOpener,         \* the opener control activated last
    usedOpeners,        \* the opener controls activated so far
    prevDisplay,        \* modal.style.display before the last event
    prevOpen,           \* isMenuOpen before the last event
    lastHref,           \* href of the anchor link activated last
    lastKey,            \* key of the last key press inside a card
    lastCard,           \* the card the last key press was inside
    keyTarget,          \* element of the card the key press came from
    prevClicks          \* linkClicks before the last key press

vars == <<isMenuOpen, ariaExpanded, menuOpenClass, innerWidth, focused,
          activeModalTrigger, modalDisplay, modalAriaHidden, bodyOverflow,
          timers, pdfOpened, navContains, fields, errorElements,
          submitCancelled, lastField, lastEvent, lastOpener, usedOpeners,
          prevDisplay, shownFrom, scrollY, lastScrollY, heroHeight, ticking,
          rafPending, scrollPending, navHidden, phase, coalesced,
          trackChildren, logoCount, cloneIndex, animationName,
          animationPlayState, reducedMotion, hovering, focusInside,
          present, found, docPhase, evaluated, listening, initRuns, wired,
          threw, prevOpen, defaultPrevented, effects, targetIds,
          anchorPrevented, anchorLog, lastHref, stack, cards, linkClicks,
          keyPrevented, lastKey, lastCard, keyTarget, prevClicks>>

formVars == <<fields, errorElements, submitCancelled, lastField, shownFrom>>

scrollVars == <<scrollY, lastScrollY, heroHeight, ticking, rafPending,
                scrollPending, navHidden, phase, coalesced>>

carouselVars == <<trackChildren, logoCount, cloneIndex, animationName,
                  animationPlayState, reducedMotion, hovering, focusInside>>

docVars == <<present, found, docPhase, evaluated, listening, initRuns, wired>>

anchorVars == <<targetIds, anchorPrevented, anchorLog, lastHref>>

cardVars == <<cards, linkClicks, keyPrevented, lastKey, lastCard, keyTarget,
              prevClicks>>

sideVars == <<docVars, anchorVars, cardVars, stack>>

featureVars == <<scrollVars, carouselVars, sideVars>>

pageVars == <<isMenuOpen, ariaExpanded, menuOpenClass, innerWidth, focused,
              activeModalTrigger, modalDisplay, modalAriaHidden,
              bodyOverflow, timers, pdfOpened, navContains, lastOpener,
              usedOpeners, prevDisplay, threw, prevOpen, defaultPrevented,
              effects>>

\* The page state the helper functions work on, as an event finds it: the
\* event is not cancelled yet and its listeners have called nothing.
Page == [isMenuOpen |-> isMenuOpen, ariaExpanded |-> ariaExpanded,
         menuOpenClass |-> menuOpenClass, focused |-> focused,
         activeModalTrigger |-> activeModalTrigger,
         modalDisplay |-> modalDisplay, modalAriaHidden |-> modalAriaHidden,
         bodyOverflow |-> bodyOverflow, timers |-> timers,
         pdfOpened |-> pdfOpened, threw |-> threw,
         defaultPrevented |-> FALSE, effects |-> <<>>]

Commit(p) ==
    /\ isMenuOpen' = p.isMenuOpen
    /\ ariaExpanded' = p.ariaExpanded
    /\ menuOpenClass' = p.menuOpenClass
    /\ focused' = p.focused
    /\ activeModalTrigger' = p.activeModalTrigger
    /\ modalDisplay' = p.modalDisplay
    /\ modalAriaHidden' = p.modalAriaHidden
    /\ bodyOverflow' = p.bodyOverflow
    /\ timers' = p.timers
    /\ pdfOpened' = p.pdfOpened
    /\ threw' = p.threw
    /\ defaultPrevented' = p.defaultPrevented
    /\ effects' = p.effects

BoolToString(b) == IF b THEN "true" ELSE "false"

\* ------------------------------------------------------- the document
\* The elements the script looks up.
ModuleLookups == {"navToggle", "navMenu", "navigation", "hero"}

Elements ==
    ModuleLookups \cup Triggers \cup
    {"navLink", "contactForm", "carousel", "track", "modal", "modalClose",
     "modalOverlay", "subscribeForm", "firstInput"}

Features == {"nav", "scroll", "form", "carousel", "modal"}

\* The elements a setup routine returns without.
Needs(feature) ==
    CASE feature = "nav" -> {"navToggle", "navMenu"}
      [] feature = "scroll" -> {"navigation", "hero"}
      [] feature = "form" -> {"contactForm"}
      [] feature = "carousel" -> {"carousel", "track"}
      [] feature = "modal" -> {"modal"}

\* Where a setup routine gets the elements it tests: the module's
\* constants (looked up when the script was evaluated) or a lookup of
\* its own (made when init runs, in the ready document).
Lookup(feature, f, pr) ==
    IF feature \in {"nav", "scroll"} THEN f ELSE pr

\* init that looks the elements of every feature up when it runs
init_lookupAtRun(f, pr) ==
    {feature \in Features : Needs(feature) \subseteq pr}

\* init: the features whose setup routine passes its guard
init(f, pr) ==
    {feature \in Features : Needs(feature) \subseteq Lookup(feature, f, pr)}

readyState ==
    CASE docPhase = "parsing" -> "loading"
      [] docPhase \in {"parsed", "contentLoaded"} -> "interactive"
      [] docPhase = "complete" -> "complete"

\* the document is loaded with every element, the script was evaluated
\* when all of them were parsed, and init has run
BootDone ==
    /\ present = Elements
    /\ found = ModuleLookups
    /\ docPhase = "complete"
    /\ evaluated = TRUE
    /\ listening = FALSE
    /\ initRuns = 1
    /\ wired = init(ModuleLookups, Elements)

\* a listener of a feature runs only if the feature's setup registered it
Listener(feature, after, before) ==
    IF feature \in wired THEN after ELSE before

\* ---------------------------------------------------------- navigation
\* toggleMobileMenu that puts the focus on the toggle control on closing
toggleMobileMenu_focusOnClose(p) ==
    LET open == ~p.isMenuOpen
        q == [p EXCEPT !.isMenuOpen = open,
                       !.ariaExpanded = BoolToString(open),
                       !.menuOpenClass = open]
    IN  IF ~open THEN [q EXCEPT !.focused = "navToggle"]
        ELSE IF "navLink" \in present
        THEN [q EXCEPT !.focused = "firstMenuItem"]
        ELSE q

toggleMobileMenu(p) ==
    LET open == ~p.isMenuOpen
        q == [p EXCEPT !.isMenuOpen = open,
                       !.ariaExpanded = BoolToString(open)]
    IN  IF open
        THEN IF "navLink" \in present
             THEN [q EXCEPT !.menuOpenClass = TRUE,
                            !.focused = "firstMenuItem"]
             ELSE [q EXCEPT !.menuOpenClass = TRUE]
        ELSE [q EXCEPT !.menuOpenClass = FALSE]

\* touchend listener that does not cancel the default action
navToggleTouchEnd_noPrevent(p) == toggleMobileMenu(p)

\* 'touchend' listener of the toggle control
navToggleTouchEnd(p) ==
    toggleMobileMenu([p EXCEPT !.defaultPrevented = TRUE])

\* closeMobileMenu without the aria-expanded update
closeMobileMenu_staleAria(p) ==
    [p EXCEPT !.isMenuOpen = FALSE, !.menuOpenClass = FALSE]

closeMobileMenu(p) ==
    [p EXCEPT !.isMenuOpen = FALSE, !.ariaExpanded = "false",
              !.menuOpenClass = FALSE]

\* document 'click' listener of setupMobileNavigation
\* (navigation.contains throws a TypeError when navigation is null)
navDocumentClick(p, targetInNav) ==
    IF "nav" \notin wired \/ ~p.isMenuOpen THEN p
    ELSE IF "navigation" \notin found THEN [p EXCEPT !.threw = TRUE]
    ELSE IF ~targetInNav THEN closeMobileMenu(p)
    ELSE p

\* document 'keydown' listener of setupMobileNavigation
navKeydown(p, key) ==
    IF "nav" \in wired /\ key = "Escape" /\ p.isMenuOpen
    THEN [closeMobileMenu(p) EXCEPT !.focused = "navToggle"]
    ELSE p

\* resize listener that takes 768 for a mobile width
navResize_above(p, width) ==
    IF "nav" \in wired /\ width > DesktopWidth /\ p.isMenuOpen
    THEN closeMobileMenu(p)
    ELSE p

\* window 'resize' listener of setupMobileNavigation
navResize(p, width) ==
    IF "nav" \in wired /\ width >= DesktopWidth /\ p.isMenuOpen
    THEN closeMobileMenu(p)
    ELSE p

\* --------------------------------------------------------------- modal
\* openModal that schedules no deferred focus
openModal_noTimer(p, triggerElement) ==
    [p EXCEPT !.activeModalTrigger = triggerElement,
              !.modalDisplay = "flex",
              !.modalAriaHidden = "false",
              !.bodyOverflow = "hidden"]

\* openModal that keeps the opener recorded first while the modal is open
openModal_keepFirst(p, triggerElement) ==
    [p EXCEPT !.activeModalTrigger =
                  IF @ # Null THEN @ ELSE triggerElement,
              !.modalDisplay = "flex",
              !.modalAriaHidden = "false",
              !.bodyOverflow = "hidden",
              !.timers = Append(@, "focus")]

openModal(p, triggerElement) ==
    [p EXCEPT !.activeModalTrigger = triggerElement,
              !.modalDisplay = "flex",
              !.modalAriaHidden = "false",
              !.bodyOverflow = "hidden",
              !.timers = Append(@, "focus")]

\* closeModal that keeps the recorded opener
closeModal_keepTrigger(p) ==
    LET q == [p EXCEPT !.modalDisplay = "none",
                       !.modalAriaHidden = "true",
                       !.bodyOverflow = "",
                       !.effects = Append(@, "closeModal")]
    IN  IF p.activeModalTrigger # Null
        THEN [q EXCEPT !.focused = p.activeModalTrigger]
        ELSE q

\* closeModal that returns focus to the first opener control of the page
closeModal_fixedFocus(p) ==
    LET q == [p EXCEPT !.modalDisplay = "none",
                       !.modalAriaHidden = "true",
                       !.bodyOverflow = "",
                       !.effects = Append(@, "closeModal")]
    IN  IF p.activeModalTrigger # Null
        THEN [q EXCEPT !.focused = "contactModalTrigger",
                       !.activeModalTrigger = Null]
        ELSE q

\* closeModal that leaves background scrolling suppressed
closeModal_keepScrollLock(p) ==
    LET q == [p EXCEPT !.modalDisplay = "none",
                       !.modalAriaHidden = "true",
                       !.effects = Append(@, "closeModal")]
    IN  IF p.activeModalTrigger # Null
        THEN [q EXCEPT !.focused = p.activeModalTrigger,
                       !.activeModalTrigger = Null]
        ELSE q

closeModal(p) ==
    LET q == [p EXCEPT !.modalDisplay = "none",
                       !.modalAriaHidden = "true",
                       !.bodyOverflow = "",
                       !.effects = Append(@, "closeModal")]
    IN  IF p.activeModalTrigger # Null
        THEN [q EXCEPT !.focused = p.activeModalTrigger,
                       !.activeModalTrigger = Null]
        ELSE q

\* Escape listener without the test that the modal is displayed
modalKeydown_noGuard(p, key) ==
    IF key = "Escape"
    THEN [p EXCEPT !.modalDisplay = "none", !.modalAriaHidden = "true",
                   !.bodyOverflow = "", !.activeModalTrigger = Null]
    ELSE p

\* document 'keydown' listener of setupModal
modalKeydown(p, key) ==
    IF "modal" \in wired /\ key = "Escape" /\ p.modalDisplay = "flex"
    THEN closeModal(p)
    ELSE p

\* 'submit' listener of the embedded form: the event is not cancelled
modalFormSubmit(p) == [p EXCEPT !.timers = Append(@, "submit")]

\* callback of the 100 ms timer of openModal
\* callback that gives up when the modal is no longer displayed
focusTimeout_ifDisplayed(p) ==
    IF "firstInput" \in present /\ p.modalDisplay = "flex"
    THEN [p EXCEPT !.focused = "firstInput"]
    ELSE p

focusTimeout(p) ==
    IF "firstInput" \in present THEN [p EXCEPT !.focused = "firstInput"]
    ELSE p

\* callback that closes the modal and then opens the document
submitTimeout_closeFirst(p) ==
    LET q == closeModal(p)
    IN  [q EXCEPT !.pdfOpened = @ + 1, !.effects = Append(@, "open")]

\* callback of the 1000 ms timer of the submit listener
submitTimeout(p) ==
    closeModal([p EXCEPT !.pdfOpened = @ + 1,
                         !.effects = Append(@, "open")])

\* ------------------------------------------------------------- timers
Delay(kind) == IF kind = "focus" THEN 100 ELSE 1000

\* A pending timer can be the next to fire unless one scheduled before it
\* has a delay that is not longer.
CanFire(ts, i) == \A j \in 1..(i - 1) : Delay(ts[j]) > Delay(ts[i])

RemoveAt(s, i) == SubSeq(s, 1, i - 1) \o SubSeq(s, i + 1, Len(s))

PendingSubmits(ts) == Cardinality({i \in 1..Len(ts) : ts[i] = "submit"})

\* ------------------------------------------------------------- actions
Record(ev) ==
    /\ lastEvent' = ev
    /\ prevDisplay' = modalDisplay
    /\ prevOpen' = isMenuOpen

\* the page has no card and no key was pressed
CardIdle ==
    /\ cards = <<>>
    /\ linkClicks = <<>>
    /\ keyPrevented = FALSE
    /\ lastKey = Null
    /\ lastCard = 0
    /\ keyTarget = Null
    /\ prevClicks = <<>>

\* no anchor link is activated and no listener is running
SideIdle ==
    /\ CardIdle
    /\ targetIds = {}
    /\ anchorPrevented = FALSE
    /\ anchorLog = <<>>
    /\ lastHref = <<>>
    /\ stack = <<>>

\* The script's variables as declared; the attributes the handlers later
\* write hold their markup values (menu collapsed, modal not displayed).
Markup ==
    /\ isMenuOpen = FALSE
    /\ ariaExpanded = "false"
    /\ menuOpenClass = FALSE
    /\ focused = Null
    /\ activeModalTrigger = Null
    /\ modalDisplay = ""
    /\ modalAriaHidden = "true"
    /\ bodyOverflow = ""
    /\ timers = <<>>
    /\ pdfOpened = 0
    /\ lastEvent = "load"
    /\ lastOpener = Null
    /\ usedOpeners = {}
    /\ prevDisplay = ""
    /\ prevOpen = FALSE
    /\ threw = FALSE
    /\ defaultPrevented = FALSE
    /\ effects = <<>>

\* State when init has run on a page that has every element.
PageInit ==
    /\ Markup
    /\ innerWidth \in Widths
    /\ navContains \in {{}, {"contactModalTrigger"}}
    /\ BootDone
    /\ SideIdle

\* the contact form left out: none of its fields is in the state
FormAbsent ==
    /\ fields = <<>>
    /\ errorElements = <<>>
    /\ submitCancelled = FALSE
    /\ lastField = 0
    /\ shownFrom = <<>>

\* the scroll-reactive header left out: the page is never scrolled
ScrollAbsent ==
    /\ scrollY = 0
    /\ lastScrollY = 0
    /\ heroHeight = 0
    /\ ticking = FALSE
    /\ rafPending = 0
    /\ scrollPending = FALSE
    /\ navHidden = FALSE
    /\ phase = "free"
    /\ coalesced = 0

\* the logo carousel left out: its track has no children and no events
CarouselAbsent ==
    /\ trackChildren = <<>>
    /\ logoCount = 0
    /\ cloneIndex = 0
    /\ animationName = ""
    /\ animationPlayState = ""
    /\ reducedMotion = FALSE
    /\ hovering = FALSE
    /\ focusInside = FALSE

\* the navigation and modal of a page left alone
PageIdle ==
    /\ PageInit
    /\ innerWidth = DesktopWidth
    /\ navContains = {}

Init ==
    /\ PageInit
    /\ FormAbsent
    /\ ScrollAbsent
    /\ CarouselAbsent

\* click on the toggle control: its listener, then the document listener
\* (the control lies inside the navigation container)
ToggleClick ==
    /\ "navToggle" \in present
    /\ Commit(navDocumentClick(
                 Listener("nav", toggleMobileMenu(Page), Page), TRUE))
    /\ Record("ToggleClick")
    /\ UNCHANGED <<innerWidth, navContains, lastOpener, usedOpeners, formVars,
                   featureVars>>

\* A touch on the toggle control: the touchend listener runs; the browser
\* dispatches the click of the same touch, to the control's listener and
\* then the document's, only if the touchend was not cancelled.
ToggleTouchEnd ==
    /\ "navToggle" \in present
    /\ LET touched == Listener("nav", navToggleTouchEnd(Page), Page)
       IN  Commit(IF touched.defaultPrevented THEN touched
                  ELSE navDocumentClick(
                          Listener("nav", toggleMobileMenu(touched), touched),
                          TRUE))
    /\ Record("ToggleTouchEnd")
    /\ UNCHANGED <<innerWidth, navContains, lastOpener, usedOpeners, formVars,
                   featureVars>>

\* click on an element of the page that has no listener of its own
PageClick ==
    \E targetInNav \in BOOLEAN :
        /\ Commit(navDocumentClick(Page, targetInNav))
        /\ Record(IF targetInNav THEN "InsideClick" ELSE "OutsideClick")
        /\ UNCHANGED <<innerWidth, navContains, lastOpener, usedOpeners, formVars,
                   featureVars>>

\* key press whose listeners run in the reverse order
Keydown_modalFirst ==
    \E key \in {"Escape", "Enter"} :
        /\ Commit(navKeydown(modalKeydown(Page, key), key))
        /\ Record(key)
        /\ UNCHANGED <<innerWidth, navContains, lastOpener, usedOpeners, formVars,
                   featureVars>>

\* keydown: the navigation's listener, then the modal's (init order)
Keydown ==
    \E key \in {"Escape", "Enter"} :
        /\ Commit(modalKeydown(navKeydown(Page, key), key))
        /\ Record(key)
        /\ UNCHANGED <<innerWidth, navContains, lastOpener, usedOpeners, formVars,
                   featureVars>>

Resize ==
    \E width \in Widths :
        /\ innerWidth' = width
        /\ Commit(navResize(Page, width))
        /\ Record("Resize")
        /\ UNCHANGED <<navContains, lastOpener, usedOpeners, formVars,
                   featureVars>>

\* click on an opener control: its listener, then the document listener
OpenerClick ==
    \E t \in Triggers :
        /\ t \in present
        /\ Len(timers) < MaxTimers
        /\ Commit(navDocumentClick(
                     Listener("modal", openModal(Page, t), Page),
                     t \in navContains))
        /\ Record("OpenerClick")
        /\ lastOpener' = t
        /\ usedOpeners' = usedOpeners \cup {t}
        /\ UNCHANGED <<innerWidth, navContains, formVars, featureVars>>

\* click on the modal's close control (inside the modal, outside the nav)
CloseClick ==
    /\ "modalClose" \in present
    /\ modalDisplay = "flex"
    /\ Commit(navDocumentClick(closeModal(Page), FALSE))
    /\ Record("CloseClick")
    /\ UNCHANGED <<innerWidth, navContains, lastOpener, usedOpeners, formVars,
                   featureVars>>

\* click on the modal's overlay
OverlayClick ==
    /\ "modalOverlay" \in present
    /\ modalDisplay = "flex"
    /\ Commit(navDocumentClick(closeModal(Page), FALSE))
    /\ Record("OverlayClick")
    /\ UNCHANGED <<innerWidth, navContains, lastOpener, usedOpeners, formVars,
                   featureVars>>

\* submit of the form embedded in the (displayed) modal
SubscribeSubmit ==
    /\ "subscribeForm" \in present
    /\ modalDisplay = "flex"
    /\ Len(timers) < MaxTimers
    /\ pdfOpened + PendingSubmits(timers) < MaxSubmits
    /\ Commit(modalFormSubmit(Page))
    /\ Record("SubscribeSubmit")
    /\ UNCHANGED <<innerWidth, navContains, lastOpener, usedOpeners, formVars,
                   featureVars>>

FocusTimerFire ==
    \E i \in 1..Len(timers) :
        /\ timers[i] = "focus"
        /\ CanFire(timers, i)
        /\ Commit(focusTimeout([Page EXCEPT !.timers = RemoveAt(@, i)]))
        /\ Record("FocusTimerFire")
        /\ UNCHANGED <<innerWidth, navContains, lastOpener, usedOpeners, formVars,
                   featureVars>>

SubmitTimerFire ==
    \E i \in 1..Len(timers) :
        /\ timers[i] = "submit"
        /\ CanFire(timers, i)
        /\ Commit(submitTimeout([Page EXCEPT !.timers = RemoveAt(@, i)]))
        /\ Record("SubmitTimerFire")
        /\ UNCHANGED <<innerWidth, navContains, lastOpener, usedOpeners, formVars,
                   featureVars>>

Next ==
    \/ ToggleClick
    \/ ToggleTouchEnd
    \/ PageClick
    \/ Keydown
    \/ Resize
    \/ OpenerClick
    \/ CloseClick
    \/ OverlayClick
    \/ SubscribeSubmit
    \/ FocusTimerFire
    \/ SubmitTimerFire

Spec == Init /\ [][Next]_vars

\* ----------------------------------------------- the modal on its own
\* The modal and its deferred actions with the navigation left alone;
\* timers that were scheduled eventually fire.
ModalInit ==
    /\ PageIdle
    /\ FormAbsent
    /\ ScrollAbsent
    /\ CarouselAbsent

ModalNext ==
    \/ OpenerClick
    \/ CloseClick
    \/ OverlayClick
    \/ Keydown
    \/ SubscribeSubmit
    \/ FocusTimerFire
    \/ SubmitTimerFire

ModalSpec ==
    /\ ModalInit
    /\ [][ModalNext]_vars
    /\ WF_vars(FocusTimerFire)
    /\ WF_vars(SubmitTimerFire)

\* ------------------------------------------ the navigation on its own
\* A loaded page without the modal, with or without entries in the menu.
NavInit ==
    /\ Markup
    /\ innerWidth \in Widths
    /\ navContains = {}
    /\ FormAbsent
    /\ ScrollAbsent
    /\ CarouselAbsent
    /\ SideIdle
    /\ \E missing \in SUBSET {"navLink"} :
          present = (Elements \ {"modal"}) \ missing
    /\ found = ModuleLookups
    /\ docPhase = "complete"
    /\ evaluated = TRUE
    /\ listening = FALSE
    /\ initRuns = 1
    /\ wired = init(found, present)

NavNext ==
    \/ ToggleClick
    \/ ToggleTouchEnd
    \/ PageClick
    \/ Keydown
    \/ Resize

NavSpec == NavInit /\ [][NavNext]_vars

\* ----------------------------------------------- pages missing elements
MaxMissing == 1     \* elements of the page that are missing

\* A loaded page that lacks up to MaxMissing of the elements the script
\* looks up; the script was evaluated when the document was parsed.
DegradedInit ==
    /\ Markup
    /\ innerWidth = DesktopWidth - 1
    /\ navContains = {}
    /\ FormAbsent
    /\ ScrollAbsent
    /\ CarouselAbsent
    /\ SideIdle
    /\ \E missing \in SUBSET Elements :
          /\ Cardinality(missing) <= MaxMissing
          /\ present = Elements \ missing
    /\ found = present \cap ModuleLookups
    /\ docPhase = "complete"
    /\ evaluated = TRUE
    /\ listening = FALSE
    /\ initRuns = 1
    /\ wired = init(found, present)

DegradedSpec == DegradedInit /\ [][Next]_vars

\* ------------------------------------------------------- contact form
NumFields == 2      \* inputs and textareas of the contact form
MaxLen == 5         \* length of a value given to validateField alone

Whitespace == {" "}
Chars == {"a", "@", ".", " "}
RequiredMessage == "This field is required."
EmailMessage == "Please enter a valid email address."
CalloutColor == "var(--color-callout)"

\* String.prototype.trim
RECURSIVE TrimStart(_)
TrimStart(v) ==
    IF v # <<>> /\ Head(v) \in Whitespace THEN TrimStart(Tail(v)) ELSE v

RECURSIVE TrimEnd(_)
TrimEnd(v) ==
    IF v # <<>> /\ v[Len(v)] \in Whitespace
    THEN TrimEnd(SubSeq(v, 1, Len(v) - 1))
    ELSE v

Trim(v) == TrimEnd(TrimStart(v))

\* [^\s@]+
NoSpaceAt(v) ==
    /\ v # <<>>
    /\ \A k \in 1..Len(v) : v[k] \notin Whitespace \cup {"@"}

\* the pattern without its top-level-domain part: /^[^\s@]+@[^\s@]+$/
emailRegexTest_noTld(v) ==
    \E a \in 1..Len(v) :
        /\ v[a] = "@"
        /\ NoSpaceAt(SubSeq(v, 1, a - 1))
        /\ NoSpaceAt(SubSeq(v, a + 1, Len(v)))

\* /^[^\s@]+@[^\s@]+\.[^\s@]+$/.test(v)
emailRegexTest(v) ==
    \E a \in 1..Len(v), d \in 1..Len(v) :
        /\ a < d
        /\ v[a] = "@"
        /\ v[d] = "."
        /\ NoSpaceAt(SubSeq(v, 1, a - 1))
        /\ NoSpaceAt(SubSeq(v, a + 1, d - 1))
        /\ NoSpaceAt(SubSeq(v, d + 1, Len(v)))

\* The form state the functions work on.
Form == [fields |-> fields, errs |-> errorElements]

ErrorId(field) == field.id \o "-error"

\* document.getElementById among the error elements: index of the first
\* element with this id in document order, 0 for null
getElementById(errs, id) ==
    IF \E k \in 1..Len(errs) : errs[k].id = id
    THEN CHOOSE k \in 1..Len(errs) :
            /\ errs[k].id = id
            /\ \A j \in 1..(k - 1) : errs[j].id # id
    ELSE 0

\* parent.appendChild of a new element: it follows the elements of its own
\* parent and of the parents before it (each field has its own parent)
AppendChild(errs, el) ==
    LET n == Cardinality({k \in 1..Len(errs) : errs[k].parent <= el.parent})
    IN  SubSeq(errs, 1, n) \o <<el>> \o SubSeq(errs, n + 1, Len(errs))

\* clearFieldError that writes aria-invalid="false" instead of removing it
clearFieldError_setFalse(F, i) ==
    LET k == getElementById(F.errs, ErrorId(F.fields[i]))
    IN  [fields |-> [F.fields EXCEPT ![i].ariaInvalid = "false",
                                     ![i].borderColor = "",
                                     ![i].describedBy = Null],
         errs |-> IF k # 0 THEN RemoveAt(F.errs, k) ELSE F.errs]

\* clearFieldError that leaves the visual flag set
clearFieldError_keepFlag(F, i) ==
    LET k == getElementById(F.errs, ErrorId(F.fields[i]))
    IN  [fields |-> [F.fields EXCEPT ![i].ariaInvalid = Null,
                                     ![i].describedBy = Null],
         errs |-> IF k # 0 THEN RemoveAt(F.errs, k) ELSE F.errs]

clearFieldError(F, i) ==
    LET k == getElementById(F.errs, ErrorId(F.fields[i]))
    IN  [fields |-> [F.fields EXCEPT ![i].ariaInvalid = Null,
                                     ![i].borderColor = "",
                                     ![i].describedBy = Null],
         errs |-> IF k # 0 THEN RemoveAt(F.errs, k) ELSE F.errs]

\* showFieldError that creates the element without giving it its id
showFieldError_noId(F, i, message) ==
    LET errorId == ErrorId(F.fields[i])
        k == getElementById(F.errs, errorId)
        errs1 == IF k = 0
                 THEN AppendChild(F.errs, [id |-> "", parent |-> i,
                                           text |-> message])
                 ELSE [F.errs EXCEPT ![k].text = message]
    IN  [fields |-> [F.fields EXCEPT ![i].ariaInvalid = "true",
                                     ![i].borderColor = CalloutColor,
                                     ![i].describedBy = errorId],
         errs |-> errs1]

showFieldError(F, i, message) ==
    LET errorId == ErrorId(F.fields[i])
        k == getElementById(F.errs, errorId)
        created == IF k = 0
                   THEN AppendChild(F.errs, [id |-> errorId, parent |-> i,
                                             text |-> ""])
                   ELSE F.errs
        e == getElementById(created, errorId)
    IN  [fields |-> [F.fields EXCEPT ![i].ariaInvalid = "true",
                                     ![i].borderColor = CalloutColor,
                                     ![i].describedBy = errorId],
         errs |-> [created EXCEPT ![e].text = message]]

\* the result of validateField's two rules: validity and message
FieldRequiredFails(field) == field.required /\ Trim(field.value) = <<>>

FieldEmailFails(field) ==
    /\ field.type = "email"
    /\ Trim(field.value) # <<>>
    /\ ~emailRegexTest(Trim(field.value))

\* validateField that gives up the email rule
FieldVerdict_noEmail(field) ==
    IF FieldRequiredFails(field)
    THEN [isValid |-> FALSE, errorMessage |-> RequiredMessage]
    ELSE [isValid |-> TRUE, errorMessage |-> ""]

FieldVerdict(field) ==
    LET r1 == IF FieldRequiredFails(field)
              THEN [isValid |-> FALSE, errorMessage |-> RequiredMessage]
              ELSE [isValid |-> TRUE, errorMessage |-> ""]
    IN  IF FieldEmailFails(field)
        THEN [isValid |-> FALSE, errorMessage |-> EmailMessage]
        ELSE r1

\* validateField: the form after the call and the value returned
validateField(F, i) ==
    LET cleared == clearFieldError(F, i)
        v == FieldVerdict(F.fields[i])
    IN  [form |-> IF ~v.isValid
                  THEN showFieldError(cleared, i, v.errorMessage)
                  ELSE cleared,
         isValid |-> v.isValid]

\* the fields 'input[required], textarea[required]' selects
RequiredInputs(F) == {i \in DOMAIN F.fields : F.fields[i].required}

\* validateForm that stops at the first field that fails
RECURSIVE validateForm_stopAtFirst(_, _)
validateForm_stopAtFirst(F, i) ==
    IF i > Len(F.fields) THEN [form |-> F, isValid |-> TRUE]
    ELSE IF i \notin RequiredInputs(F) THEN validateForm_stopAtFirst(F, i + 1)
    ELSE LET r == validateField(F, i)
         IN  IF r.isValid THEN validateForm_stopAtFirst(r.form, i + 1)
             ELSE [form |-> r.form, isValid |-> FALSE]

\* validateForm that returns the verdict of the last field only
RECURSIVE validateForm_lastWins(_, _)
validateForm_lastWins(F, i) ==
    IF i > Len(F.fields) THEN [form |-> F, isValid |-> TRUE]
    ELSE IF i \notin RequiredInputs(F) THEN validateForm_lastWins(F, i + 1)
    ELSE LET r == validateField(F, i)
             rest == validateForm_lastWins(r.form, i + 1)
         IN  [form |-> rest.form,
              isValid |-> IF \E j \in RequiredInputs(F) : j > i
                          THEN rest.isValid ELSE r.isValid]

\* validateForm: forEach over the required fields from field i on
RECURSIVE validateForm(_, _)
validateForm(F, i) ==
    IF i > Len(F.fields) THEN [form |-> F, isValid |-> TRUE]
    ELSE IF i \notin RequiredInputs(F) THEN validateForm(F, i + 1)
    ELSE LET r == validateField(F, i)
             rest == validateForm(r.form, i + 1)
         IN  [form |-> rest.form, isValid |-> r.isValid /\ rest.isValid]

CommitForm(F) ==
    /\ fields' = F.fields
    /\ errorElements' = F.errs

\* id attributes of the fields: none has one, all differ, or the first two
\* share one
FieldNames == <<"name", "email", "message", "phone">>
Ids == {[i \in 1..NumFields |-> ""],
        [i \in 1..NumFields |-> FieldNames[i]],
        [i \in 1..NumFields |-> IF i <= 2 THEN "name" ELSE FieldNames[i]]}
Types == {"text", "email"}
FormValues == {<<>>, <<" ">>, <<"a", "@", "a">>, <<"a", "@", "a", ".", "a">>}

\* a freshly loaded form: no value typed, no error shown
FreshField(id, required, type) ==
    [id |-> id, required |-> required, type |-> type, value |-> <<>>,
     ariaInvalid |-> Null, borderColor |-> "", describedBy |-> Null]

FormInit ==
    /\ PageIdle
    /\ ScrollAbsent
    /\ CarouselAbsent
    /\ \E id \in Ids, r \in [1..NumFields -> BOOLEAN],
          t \in [1..NumFields -> Types] :
          fields = [i \in 1..NumFields |-> FreshField(id[i], r[i], t[i])]
    /\ errorElements = <<>>
    /\ submitCancelled = FALSE
    /\ lastField = 0
    /\ shownFrom = [i \in 1..NumFields |-> Null]

\* a form whose fields have distinct ids and may carry an
\* aria-describedby of their own (a hint text)
HintInit ==
    /\ PageIdle
    /\ ScrollAbsent
    /\ CarouselAbsent
    /\ \E r \in [1..NumFields -> BOOLEAN], t \in [1..NumFields -> Types],
          h \in [1..NumFields -> {Null, "hint"}] :
          fields = [i \in 1..NumFields |->
                      [FreshField(FieldNames[i], r[i], t[i])
                          EXCEPT !.describedBy = h[i]]]
    /\ errorElements = <<>>
    /\ submitCancelled = FALSE
    /\ lastField = 0
    /\ shownFrom = [i \in 1..NumFields |-> Null]

\* the annotations of field i: its attributes and the text of the element
\* its error id names
Annotations(F, i) ==
    LET k == getElementById(F.errs, ErrorId(F.fields[i]))
    IN  [ariaInvalid |-> F.fields[i].ariaInvalid,
         borderColor |-> F.fields[i].borderColor,
         describedBy |-> F.fields[i].describedBy,
         errorText |-> IF k = 0 THEN Null ELSE F.errs[k].text]

\* history: a field whose error is shown after the event remembers the
\* annotations it had before the event that showed it
RememberShown ==
    shownFrom' = [j \in DOMAIN fields |->
                    IF fields'[j].ariaInvalid # "true" THEN Null
                    ELSE IF fields[j].ariaInvalid = "true" THEN shownFrom[j]
                    ELSE Annotations(Form, j)]

\* 'submit' listener of the contact form
FormSubmit ==
    LET r == validateForm(Form, 1)
    IN  /\ CommitForm(r.form)
        /\ submitCancelled' = ~r.isValid
        /\ lastEvent' = "submit"
        /\ lastField' = 0
        /\ RememberShown
        /\ UNCHANGED <<pageVars, featureVars>>

\* 'blur' listener of a field
FieldBlur ==
    \E i \in DOMAIN fields :
        /\ CommitForm(validateField(Form, i).form)
        /\ lastEvent' = "blur"
        /\ lastField' = i
        /\ RememberShown
        /\ UNCHANGED <<submitCancelled, pageVars, featureVars>>

\* the user edits a field, then its 'input' listener runs
FieldInput ==
    \E i \in DOMAIN fields, v \in FormValues :
        /\ v # fields[i].value
        /\ CommitForm(clearFieldError(
                [Form EXCEPT !.fields[i].value = v], i))
        /\ lastEvent' = "input"
        /\ lastField' = i
        /\ RememberShown
        /\ UNCHANGED <<submitCancelled, pageVars, featureVars>>

FormNext ==
    \/ FormSubmit
    \/ FieldBlur
    \/ FieldInput

FormSpec == FormInit /\ [][FormNext]_vars

HintSpec == HintInit /\ [][FormNext]_vars

\* validateField applied to one field holding any value up to MaxLen
AllValues == UNION {[1..n -> Chars] : n \in 0..MaxLen}

FieldInit ==
    /\ PageIdle
    /\ ScrollAbsent
    /\ CarouselAbsent
    /\ \E v \in AllValues, r \in BOOLEAN, t \in Types :
          fields = <<[FreshField("email", r, t) EXCEPT !.value = v]>>
    /\ errorElements = <<>>
    /\ submitCancelled = FALSE
    /\ lastField = 0
    /\ shownFrom = <<Null>>

FieldNext == FieldBlur

FieldSpec == FieldInit /\ [][FieldNext]_vars

\* ---------------------------------------------- scroll-reactive header
MaxHero == 2        \* largest hero height; offsets go up to twice that
MaxFrames == 2      \* requested animation frames that may be pending
MaxCoalesced == 2   \* scroll events counted per header update

Offsets == 0..(2 * MaxHero)

\* The scroll state the functions work on.
Scroll == [scrollY |-> scrollY, lastScrollY |-> lastScrollY,
           heroHeight |-> heroHeight, ticking |-> ticking,
           rafPending |-> rafPending, navHidden |-> navHidden]

CommitScroll(c) ==
    /\ lastScrollY' = c.lastScrollY
    /\ ticking' = c.ticking
    /\ rafPending' = c.rafPending
    /\ navHidden' = c.navHidden

\* updateNavigation that hides at the hero height already (>=)
updateNavigation_atHero(c) ==
    LET currentScrollY == c.scrollY
    IN  [c EXCEPT !.navHidden = /\ currentScrollY >= c.heroHeight
                                /\ currentScrollY > c.lastScrollY,
                  !.lastScrollY = currentScrollY,
                  !.ticking = FALSE]

\* updateNavigation that ignores the hero height
updateNavigation_noHero(c) ==
    LET currentScrollY == c.scrollY
    IN  [c EXCEPT !.navHidden = currentScrollY > c.lastScrollY,
                  !.lastScrollY = currentScrollY,
                  !.ticking = FALSE]

\* updateNavigation that ignores the scroll direction
updateNavigation_noDirection(c) ==
    LET currentScrollY == c.scrollY
    IN  [c EXCEPT !.navHidden = currentScrollY > c.heroHeight,
                  !.lastScrollY = currentScrollY,
                  !.ticking = FALSE]

\* updateNavigation that leaves the ticking flag set
updateNavigation_staysTicking(c) ==
    LET currentScrollY == c.scrollY
    IN  [c EXCEPT !.navHidden = /\ currentScrollY > c.heroHeight
                                /\ currentScrollY > c.lastScrollY,
                  !.lastScrollY = currentScrollY]

updateNavigation(c) ==
    LET currentScrollY == c.scrollY
    IN  [c EXCEPT !.navHidden = /\ currentScrollY > c.heroHeight
                                /\ currentScrollY > c.lastScrollY,
                  !.lastScrollY = currentScrollY,
                  !.ticking = FALSE]

\* onScroll that requests a frame for every event
onScroll_noTicking(c) ==
    [c EXCEPT !.rafPending = @ + 1, !.ticking = TRUE]

onScroll(c) ==
    IF ~c.ticking
    THEN [c EXCEPT !.rafPending = @ + 1, !.ticking = TRUE]
    ELSE c

\* State when init has run on a page with navigation and hero: lastScrollY
\* holds the offset the page was loaded at, the header is shown.
ScrollInit ==
    /\ PageIdle
    /\ FormAbsent
    /\ CarouselAbsent
    /\ scrollY \in Offsets
    /\ lastScrollY = scrollY
    /\ heroHeight \in 1..MaxHero
    /\ ticking = FALSE
    /\ rafPending = 0
    /\ scrollPending = FALSE
    /\ navHidden = FALSE
    /\ phase = "free"
    /\ coalesced = 0

\* the page is scrolled to another offset; the scroll event is dispatched
\* at the next rendering update
ScrollMove ==
    \E y \in Offsets :
        /\ y # scrollY
        /\ phase = "down" => (y > scrollY /\ y <= 2 * heroHeight)
        /\ phase = "up" => y < scrollY
        /\ scrollY' = y
        /\ scrollPending' = TRUE
        /\ lastEvent' = "move"
        /\ UNCHANGED <<lastScrollY, heroHeight, ticking, rafPending,
                       navHidden, phase, coalesced>>
        /\ UNCHANGED <<pageVars, formVars, carouselVars, sideVars>>

\* 'scroll' listener of the window
ScrollEvent ==
    /\ scrollPending
    /\ rafPending < MaxFrames
    /\ CommitScroll(onScroll(Scroll))
    /\ scrollPending' = FALSE
    /\ coalesced' = IF ~ticking THEN 1
                    ELSE IF coalesced < MaxCoalesced THEN coalesced + 1
                    ELSE coalesced
    /\ lastEvent' = "scroll"
    /\ UNCHANGED <<scrollY, heroHeight, phase>>
    /\ UNCHANGED <<pageVars, formVars, carouselVars, sideVars>>

\* an animation frame: scroll events are dispatched before the frame's
\* callbacks run, then a requested updateNavigation runs
Frame ==
    /\ rafPending > 0
    /\ ~scrollPending
    /\ CommitScroll(updateNavigation([Scroll EXCEPT !.rafPending = @ - 1]))
    /\ lastEvent' = "frame"
    /\ UNCHANGED <<scrollY, heroHeight, scrollPending, phase, coalesced>>
    /\ UNCHANGED <<pageVars, formVars, carouselVars, sideVars>>

ScrollNext ==
    \/ ScrollMove
    \/ ScrollEvent
    \/ Frame

ScrollSpec == ScrollInit /\ [][ScrollNext]_vars

\* A pending scroll event is dispatched and a requested animation frame
\* runs: the rendering update that runs the frame's callbacks dispatches
\* the pending scroll event first, however often the page is scrolled.
ScrollLiveSpec ==
    ScrollSpec /\ WF_vars(ScrollEvent) /\ SF_vars(Frame)

\* The scenario of scrolling down from offset 0 to twice the hero height,
\* and, once that has been handled, back up.
ScenarioInit ==
    /\ PageIdle
    /\ FormAbsent
    /\ CarouselAbsent
    /\ scrollY = 0
    /\ lastScrollY = 0
    /\ heroHeight \in 1..MaxHero
    /\ ticking = FALSE
    /\ rafPending = 0
    /\ scrollPending = FALSE
    /\ navHidden = FALSE
    /\ phase = "down"
    /\ coalesced = 0

Settled == ~scrollPending /\ rafPending = 0

TurnAround ==
    /\ phase = "down"
    /\ scrollY = 2 * heroHeight
    /\ Settled
    /\ phase' = "up"
    /\ lastEvent' = "turn"
    /\ UNCHANGED <<scrollY, lastScrollY, heroHeight, ticking, rafPending,
                   scrollPending, navHidden, coalesced>>
    /\ UNCHANGED <<pageVars, formVars, carouselVars, sideVars>>

ScenarioNext ==
    \/ ScrollMove
    \/ ScrollEvent
    \/ Frame
    \/ TurnAround

ScenarioSpec == ScenarioInit /\ [][ScenarioNext]_vars

\* ------------------------------------------------------- logo carousel
MaxLogos == 3       \* children of the track before setup

\* The carousel state the listeners work on: the inline style of the
\* track. An empty animationName leaves the stylesheet's animation in
\* force, an empty animationPlayState its play state (running).
Carousel == [animationName |-> animationName,
             animationPlayState |-> animationPlayState]

CommitCarousel(c) ==
    /\ animationName' = c.animationName
    /\ animationPlayState' = c.animationPlayState

\* track.style.animation = 'none' sets every longhand: no animation name,
\* play state back to its initial value
styleAnimationNone(c) ==
    [c EXCEPT !.animationName = "none", !.animationPlayState = "running"]

\* track.style.animation = '' removes every longhand from the inline style
styleAnimationEmpty(c) ==
    [c EXCEPT !.animationName = "", !.animationPlayState = ""]

pauseAnimation(c) == [c EXCEPT !.animationPlayState = "paused"]

resumeAnimation(c) == [c EXCEPT !.animationPlayState = "running"]

\* the check at setup left out
applyMotionPreference_notAtSetup(c, matches) == c

applyMotionPreference(c, matches) ==
    IF matches THEN styleAnimationNone(c) ELSE c

\* 'change' listener that never restores the animation
motionChanged_noRestore(c, matches) ==
    IF matches THEN styleAnimationNone(c) ELSE c

motionChanged(c, matches) ==
    IF matches THEN styleAnimationNone(c) ELSE styleAnimationEmpty(c)

\* the animation of the track is running on screen
AnimationRuns ==
    /\ animationName # "none"
    /\ animationPlayState # "paused"

Original(i) == [logo |-> i, clone |-> FALSE]

cloneNode(child) == [child EXCEPT !.clone = TRUE]

\* the clone put in front of the children instead of after them
appendClone_inFront(children, i) ==
    <<cloneNode(children[i + 1])>> \o children

\* the clone taken from the child the live collection has at the end
appendClone_ofLast(children, i) ==
    Append(children, cloneNode(children[Len(children)]))

\* one pass of the loop body: logos is the live children collection,
\* indexed from 0
appendClone(children, i) ==
    Append(children, cloneNode(children[i + 1]))

\* State when setupLogoCarousel has registered its listeners, applied the
\* motion preference and read logoCount, before the first pass of the loop.
CarouselInit ==
    /\ PageIdle
    /\ FormAbsent
    /\ ScrollAbsent
    /\ logoCount \in 0..MaxLogos
    /\ trackChildren = [i \in 1..logoCount |-> Original(i)]
    /\ cloneIndex = 0
    /\ reducedMotion \in BOOLEAN
    /\ animationName =
          applyMotionPreference([animationName |-> "",
                                 animationPlayState |-> ""],
                                reducedMotion).animationName
    /\ animationPlayState =
          applyMotionPreference([animationName |-> "",
                                 animationPlayState |-> ""],
                                reducedMotion).animationPlayState
    /\ hovering = FALSE
    /\ focusInside = FALSE

SetupDone == cloneIndex = logoCount

\* one pass of the for loop of setupLogoCarousel
CloneStep ==
    /\ cloneIndex < logoCount
    /\ trackChildren' = appendClone(trackChildren, cloneIndex)
    /\ cloneIndex' = cloneIndex + 1
    /\ lastEvent' = "clone"
    /\ UNCHANGED <<logoCount, animationName, animationPlayState,
                   reducedMotion, hovering, focusInside>>
    /\ UNCHANGED <<pageVars, formVars, scrollVars, sideVars>>

MouseEnter ==
    /\ SetupDone
    /\ ~hovering
    /\ hovering' = TRUE
    /\ CommitCarousel(pauseAnimation(Carousel))
    /\ lastEvent' = "mouseenter"
    /\ UNCHANGED <<trackChildren, logoCount, cloneIndex, reducedMotion,
                   focusInside>>
    /\ UNCHANGED <<pageVars, formVars, scrollVars, sideVars>>

MouseLeave ==
    /\ SetupDone
    /\ hovering
    /\ hovering' = FALSE
    /\ CommitCarousel(resumeAnimation(Carousel))
    /\ lastEvent' = "mouseleave"
    /\ UNCHANGED <<trackChildren, logoCount, cloneIndex, reducedMotion,
                   focusInside>>
    /\ UNCHANGED <<pageVars, formVars, scrollVars, sideVars>>

FocusIn ==
    /\ SetupDone
    /\ ~focusInside
    /\ focusInside' = TRUE
    /\ CommitCarousel(pauseAnimation(Carousel))
    /\ lastEvent' = "focusin"
    /\ UNCHANGED <<trackChildren, logoCount, cloneIndex, reducedMotion,
                   hovering>>
    /\ UNCHANGED <<pageVars, formVars, scrollVars, sideVars>>

FocusOut ==
    /\ SetupDone
    /\ focusInside
    /\ focusInside' = FALSE
    /\ CommitCarousel(resumeAnimation(Carousel))
    /\ lastEvent' = "focusout"
    /\ UNCHANGED <<trackChildren, logoCount, cloneIndex, reducedMotion,
                   hovering>>
    /\ UNCHANGED <<pageVars, formVars, scrollVars, sideVars>>

\* the reduced-motion preference changes: 'change' listener of the query
MotionChange ==
    /\ SetupDone
    /\ reducedMotion' = ~reducedMotion
    /\ CommitCarousel(motionChanged(Carousel, reducedMotion'))
    /\ lastEvent' = "change"
    /\ UNCHANGED <<trackChildren, logoCount, cloneIndex, hovering,
                   focusInside>>
    /\ UNCHANGED <<pageVars, formVars, scrollVars, sideVars>>

CarouselNext ==
    \/ CloneStep
    \/ MouseEnter
    \/ MouseLeave
    \/ FocusIn
    \/ FocusOut
    \/ MotionChange

CarouselSpec == CarouselInit /\ [][CarouselNext]_vars

\* -------------------------------------------------- start of the script
\* The elements whose presence is varied at the start.
Roots == {"navToggle", "navMenu", "navigation", "hero", "contactForm",
          "modal"}

\* A page load before the script is evaluated. Nothing is wired, so the
\* state of every feature is its markup state.
BootInit ==
    /\ Markup
    /\ innerWidth = DesktopWidth
    /\ navContains = {}
    /\ FormAbsent
    /\ ScrollAbsent
    /\ CarouselAbsent
    /\ SideIdle
    /\ \E missing \in SUBSET Roots : present = Elements \ missing
    /\ found = {}
    /\ docPhase = "parsing"
    /\ evaluated = FALSE
    /\ listening = FALSE
    /\ initRuns = 0
    /\ wired = {}

BootUnchanged ==
    /\ lastEvent' = lastEvent
    /\ UNCHANGED <<pageVars, formVars, scrollVars, carouselVars, present,
                   anchorVars, cardVars, stack>>

\* the parser reaches the end of the document
ParseEnd ==
    /\ docPhase = "parsing"
    /\ docPhase' = "parsed"
    /\ UNCHANGED <<found, evaluated, listening, initRuns, wired>>
    /\ BootUnchanged

\* The script is evaluated (lines 6-440): the lookups of lines 10-13 see
\* the elements parsed so far, then lines 434-438 run.
Evaluate ==
    /\ ~evaluated
    /\ evaluated' = TRUE
    /\ \E seen \in SUBSET (present \cap ModuleLookups) :
          /\ docPhase # "parsing" => seen = present \cap ModuleLookups
          /\ found' = seen
          /\ IF readyState = "loading"
             THEN /\ listening' = TRUE
                  /\ UNCHANGED <<initRuns, wired>>
             ELSE /\ initRuns' = initRuns + 1
                  /\ wired' = init(seen, present)
                  /\ UNCHANGED listening
    /\ UNCHANGED docPhase
    /\ BootUnchanged

\* DOMContentLoaded is dispatched: init runs if it is registered
ContentLoaded ==
    /\ docPhase = "parsed"
    /\ docPhase' = "contentLoaded"
    /\ IF listening
       THEN /\ initRuns' = initRuns + 1
            /\ wired' = init(found, present)
       ELSE UNCHANGED <<initRuns, wired>>
    /\ UNCHANGED <<found, evaluated, listening>>
    /\ BootUnchanged

\* the load event: the document is complete
LoadEnd ==
    /\ docPhase = "contentLoaded"
    /\ docPhase' = "complete"
    /\ UNCHANGED <<found, evaluated, listening, initRuns, wired>>
    /\ BootUnchanged

BootNext ==
    \/ ParseEnd
    \/ Evaluate
    \/ ContentLoaded
    \/ LoadEnd

BootSpec == BootInit /\ [][BootNext]_vars

\* ------------------------------------------------- same-page anchor links
AnchorIds == {<<"a">>, <<"b">>, <<"c">>}

\* href values that start with '#': the selector a[href^="#"]
Hrefs == {<<"#">> \o id : id \in AnchorIds \cup {<<>>}}

\* String.prototype.substring(1)
Substring1(str) == Tail(str)

\* listener that always scrolls smoothly
anchorClick_alwaysSmooth(href, ids, matches) ==
    LET targetId == Substring1(href)
    IN  IF targetId \in ids
        THEN [prevented |-> TRUE,
              log |-> << [call |-> "scrollIntoView", target |-> targetId,
                          behavior |-> "smooth", block |-> "start"],
                         [call |-> "focus", target |-> targetId,
                          preventScroll |-> TRUE] >>]
        ELSE [prevented |-> FALSE, log |-> <<>>]

\* listener that cancels the jump before it looks for the target
anchorClick_preventFirst(href, ids, matches) ==
    LET targetId == Substring1(href)
    IN  IF targetId \in ids
        THEN [prevented |-> TRUE,
              log |-> << [call |-> "scrollIntoView", target |-> targetId,
                          behavior |-> IF matches THEN "auto" ELSE "smooth",
                          block |-> "start"],
                         [call |-> "focus", target |-> targetId,
                          preventScroll |-> TRUE] >>]
        ELSE [prevented |-> TRUE, log |-> <<>>]

\* 'click' listener of an anchor link: ids are the ids getElementById
\* finds, matches is the reduced-motion query at the time of the click
anchorClick(href, ids, matches) ==
    LET targetId == Substring1(href)
    IN  IF targetId \in ids
        THEN [prevented |-> TRUE,
              log |-> << [call |-> "scrollIntoView", target |-> targetId,
                          behavior |-> IF matches THEN "auto" ELSE "smooth",
                          block |-> "start"],
                         [call |-> "focus", target |-> targetId,
                          preventScroll |-> TRUE] >>]
        ELSE [prevented |-> FALSE, log |-> <<>>]

\* a loaded page on which only the feature at hand is exercised
LoadedPage ==
    /\ Markup
    /\ innerWidth = DesktopWidth
    /\ navContains = {}
    /\ BootDone
    /\ FormAbsent
    /\ ScrollAbsent
    /\ CarouselAbsent

AnchorInit ==
    /\ LoadedPage
    /\ CardIdle
    /\ targetIds \in SUBSET AnchorIds
    /\ anchorPrevented = FALSE
    /\ anchorLog = <<>>
    /\ lastHref = <<>>
    /\ stack = <<>>

\* Click on an anchor link. The document click listener of the navigation
\* runs too and finds the menu closed.
AnchorClick ==
    \E href \in Hrefs :
        LET r == anchorClick(href, targetIds, reducedMotion)
        IN  /\ ~isMenuOpen
            /\ anchorPrevented' = r.prevented
            /\ anchorLog' = r.log
            /\ lastHref' = href
            /\ focused' = IF r.log # <<>> THEN "anchorTarget" ELSE focused
            /\ lastEvent' = "AnchorClick"
            /\ UNCHANGED <<isMenuOpen, ariaExpanded, menuOpenClass,
                           innerWidth, activeModalTrigger, modalDisplay,
                           modalAriaHidden, bodyOverflow, timers, pdfOpened,
                           navContains, lastOpener, usedOpeners, prevDisplay,
                           threw, prevOpen, defaultPrevented, effects>>
            /\ UNCHANGED <<targetIds, stack, docVars, formVars, scrollVars,
                           carouselVars, cardVars>>

AnchorNext ==
    \/ AnchorClick
    \/ MotionChange

AnchorSpec == AnchorInit /\ [][AnchorNext]_vars

\* ------------------------------------------------- cards that embed a link
NumCards == 2       \* elements matching '.talk-card, .quote-card'
MaxClicks == 3      \* click() calls counted on one link

CardKeys == {"Enter", " ", "Tab", "Escape", "a"}

\* Elements of a card a key press can come from. A keydown event bubbles,
\* so the card's listener runs for each of them.
CardTargets(hasLink) ==
    IF hasLink THEN {"card", "link", "inner"} ELSE {"card", "inner"}

\* 'keydown' listener of a card: the event's target is not looked at
cardKeydown(key) ==
    IF key = "Enter" \/ key = " "
    THEN [prevented |-> TRUE, clicks |-> 1]
    ELSE [prevented |-> FALSE, clicks |-> 0]

CardInit ==
    /\ LoadedPage
    /\ targetIds = {}
    /\ anchorPrevented = FALSE
    /\ anchorLog = <<>>
    /\ lastHref = <<>>
    /\ stack = <<>>
    /\ cards \in [1..NumCards -> BOOLEAN]
    /\ linkClicks = [c \in 1..NumCards |-> 0]
    /\ keyPrevented = FALSE
    /\ lastKey = Null
    /\ lastCard = 0
    /\ keyTarget = Null
    /\ prevClicks = linkClicks

\* A key press inside a card. The listener is registered only on a card
\* in which querySelector('a') found a link.
CardKeydown ==
    \E c \in 1..NumCards, key \in CardKeys :
        \E target \in CardTargets(cards[c]) :
            LET r == IF cards[c] THEN cardKeydown(key)
                     ELSE [prevented |-> FALSE, clicks |-> 0]
            IN  /\ linkClicks[c] < MaxClicks
                /\ keyPrevented' = r.prevented
                /\ linkClicks' = [linkClicks EXCEPT ![c] = @ + r.clicks]
                /\ prevClicks' = linkClicks
                /\ lastKey' = key
                /\ lastCard' = c
                /\ keyTarget' = target
                /\ lastEvent' = "CardKeydown"
                /\ UNCHANGED cards
                /\ UNCHANGED <<pageVars, formVars, scrollVars, carouselVars,
                               docVars, anchorVars, stack>>

CardNext == CardKeydown

CardSpec == CardInit /\ [][CardNext]_vars

\* ------------------------------------------------- nesting of listeners
MaxDepth == 4       \* listeners that may be running inside one another

\* the subsequence of list at the positions in I
Pick(list, I) ==
    LET F[i \in 0..Len(list)] ==
            IF i = 0 THEN <<>>
            ELSE IF i \in I THEN Append(F[i - 1], list[i])
            ELSE F[i - 1]
    IN  F[Len(list)]

\* the non-empty subsequences of list: the listeners an event reaches
\* depend on where its target lies
Sublists(list) == {Pick(list, I) : I \in SUBSET (1..Len(list))} \ {<<>>}

\* Listeners of the events a focus() call dispatches before it returns:
\* blur and focusout on the element that loses the focus, focusin on the
\* one that gets it.
FocusListeners == <<"fieldBlur", "carouselFocusOut", "carouselFocusIn">>

\* Listeners of the click that link.click() dispatches: those of the link
\* itself in registration order, then those of its ancestors.
ClickListeners ==
    <<"anchorClick", "openerClick", "overlayClick", "navDocumentClick">>

\* a focusin listener that moves the focus itself
Calls_refocus(handler) ==
    CASE handler \in {"toggleClick", "toggleTouchEnd", "navKeydown",
                      "anchorClick", "focusTimeout", "submitTimeout",
                      "modalCloseClick", "overlayClick", "modalKeydown",
                      "carouselFocusIn"}
            -> {"focus"}
      [] handler = "cardKeydown" -> {"click"}
      [] OTHER -> {}

\* The calls of a listener that dispatch events before they return:
\* focus() in toggleMobileMenu, the Escape listener, the anchor listener,
\* the focus timer and closeModal; click() in the card key listener.
Calls(handler) ==
    CASE handler \in {"toggleClick", "toggleTouchEnd", "navKeydown",
                      "anchorClick", "focusTimeout", "submitTimeout",
                      "modalCloseClick", "overlayClick", "modalKeydown"}
            -> {"focus"}
      [] handler = "cardKeydown" -> {"click"}
      [] OTHER -> {}

Dispatched(call) ==
    IF call = "focus" THEN Sublists(FocusListeners)
    ELSE Sublists(ClickListeners)

\* What the event loop dispatches: for each event or timer the listeners
\* the script registered for it, in the order they run.
TopDispatches ==
    {<<"toggleClick", "navDocumentClick">>, <<"toggleTouchEnd">>,
     <<"navResize">>, <<"onScroll">>, <<"updateNavigation">>,
     <<"formSubmit">>, <<"fieldInput">>, <<"carouselMouseEnter">>,
     <<"carouselMouseLeave">>, <<"motionChange">>, <<"subscribeSubmit">>,
     <<"focusTimeout">>, <<"submitTimeout">>}
    \cup Sublists(<<"anchorClick", "openerClick", "modalCloseClick",
                    "overlayClick", "navDocumentClick">>)
    \cup Sublists(<<"cardKeydown", "navKeydown", "modalKeydown">>)
    \cup Sublists(FocusListeners)

Running(d) == [handler |-> Head(d), rest |-> Tail(d)]

ReentryInit ==
    /\ LoadedPage
    /\ CardIdle
    /\ targetIds = {}
    /\ anchorPrevented = FALSE
    /\ anchorLog = <<>>
    /\ lastHref = <<>>
    /\ stack = <<>>

ReentryUnchanged ==
    UNCHANGED <<pageVars, formVars, scrollVars, carouselVars, docVars,
                anchorVars, cardVars>>

\* the event loop dispatches an event or runs a timer: only when no
\* listener is running
EventLoopDispatch ==
    /\ stack = <<>>
    /\ \E d \in TopDispatches : stack' = <<Running(d)>>
    /\ lastEvent' = "dispatch"
    /\ ReentryUnchanged

\* the running listener calls focus() or click(): the listeners of the
\* events this dispatches run before the call returns
SyncDispatch ==
    /\ stack # <<>>
    /\ Len(stack) < MaxDepth
    /\ \E call \in Calls(stack[Len(stack)].handler) :
          \E d \in Dispatched(call) : stack' = Append(stack, Running(d))
    /\ lastEvent' = "call"
    /\ ReentryUnchanged

\* the running listener returns: the next listener of the same dispatch
\* runs, or the dispatch is over
HandlerReturn ==
    /\ stack # <<>>
    /\ LET top == stack[Len(stack)]
           below == SubSeq(stack, 1, Len(stack) - 1)
       IN  stack' = IF top.rest # <<>>
                    THEN Append(below, Running(top.rest))
                    ELSE below
    /\ lastEvent' = "return"
    /\ ReentryUnchanged

ReentryNext ==
    \/ EventLoopDispatch
    \/ SyncDispatch
    \/ HandlerReturn

ReentrySpec == ReentryInit /\ [][ReentryNext]_vars

\* Timers that were scheduled eventually fire.
LiveSpec == Spec /\ WF_vars(FocusTimerFire) /\ WF_vars(SubmitTimerFire)

\* ------------------------------------------------------------- claims
ModalOpen == modalDisplay = "flex"

\* C1: in every reachable state the toggle control's aria-expanded value
\* equals the isMenuOpen flag, and the menu has its open class exactly when
\* the flag is true.
C1_AriaMatchesFlag ==
    /\ ariaExpanded = BoolToString(isMenuOpen)
    /\ menuOpenClass = isMenuOpen

\* the menu was opened and then closed by Escape
C1_Witness ==
    /\ lastEvent = "Escape"
    /\ focused = "navToggle"
    /\ ~isMenuOpen
    /\ ariaExpanded = "false"

\* C2: the recorded opener is non-null exactly when the modal is OPEN.
C2_OpenerIffOpen == (activeModalTrigger # Null) <=> ModalOpen

\* the modal was open and has just been closed
C2_Witness ==
    /\ prevDisplay = "flex"
    /\ modalDisplay = "none"
    /\ activeModalTrigger = Null
    /\ lastOpener # Null

\* C3: whatever happened before, a step that closes the open modal moves
\* focus to the opener control through which it was opened last.
C3_FocusReturnsToOpener ==
    [][(ModalOpen /\ modalDisplay' = "none")
          => (focused' = lastOpener /\ focused' \in Triggers)]_vars

\* after cycles through all three openers, the modal opened via the lead
\* magnet control was closed and focus is on that control
C3_Witness ==
    /\ usedOpeners = Triggers
    /\ lastOpener = "leadMagnetTrigger"
    /\ prevDisplay = "flex"
    /\ modalDisplay = "none"
    /\ focused = "leadMagnetTrigger"

CloseTriggers == {"CloseClick", "OverlayClick", "Escape", "SubmitTimerFire"}

\* C4: the modal starts CLOSED; from OPEN each of the four close triggers
\* leads to CLOSED, resets body overflow, focuses the recorded opener and
\* clears it; Escape changes nothing of the modal while it is CLOSED.
C4_CloseTransition ==
    /\ ~ModalOpen
    /\ [][/\ (ModalOpen /\ lastEvent' \in CloseTriggers)
              => /\ modalDisplay' = "none"
                 /\ bodyOverflow' = ""
                 /\ focused' = activeModalTrigger
                 /\ activeModalTrigger' = Null
          /\ (~ModalOpen /\ lastEvent' = "Escape")
              => UNCHANGED <<modalDisplay, modalAriaHidden, bodyOverflow,
                             activeModalTrigger>>]_vars

\* the deferred post-submit action closed the open modal
C4_Witness ==
    /\ lastEvent = "SubmitTimerFire"
    /\ prevDisplay = "flex"
    /\ modalDisplay = "none"
    /\ bodyOverflow = ""
    /\ focused = lastOpener
    /\ activeModalTrigger = Null

\* C5: activating an opener control opens the modal, records the control,
\* hides body overflow and schedules one deferred focus; after that, focus
\* reaches the first input unless the modal is closed first.
C5_OpenTransition ==
    /\ [][lastEvent' = "OpenerClick"
            => /\ modalDisplay' = "flex"
               /\ activeModalTrigger' = lastOpener'
               /\ bodyOverflow' = "hidden"
               /\ timers' = Append(timers, "focus")]_vars
    /\ (lastEvent = "OpenerClick") ~> (focused = "firstInput" \/ ~ModalOpen)

\* the deferred focus ran while the modal was still open
C5_Witness ==
    /\ lastEvent = "FocusTimerFire"
    /\ prevDisplay = "flex"
    /\ ModalOpen
    /\ focused = "firstInput"

\* --------------------------------------------------- claims on the form
\* the error text a field carries: the text of the element its error id
\* names, when the field is marked invalid
ErrorCount(i) ==
    Cardinality({k \in 1..Len(errorElements) :
                    errorElements[k].id = ErrorId(fields[i])})

CarriesError(i, message) ==
    /\ fields[i].ariaInvalid = "true"
    /\ \E k \in 1..Len(errorElements) :
          /\ errorElements[k].id = ErrorId(fields[i])
          /\ errorElements[k].text = message

CarriesNoError(i) ==
    /\ fields[i].ariaInvalid = Null
    /\ ErrorCount(i) = 0

\* C6: the submit handler cancels the event exactly when some required
\* field fails validateField.
C6_CancelIffRequiredFails ==
    lastEvent = "submit" =>
        (submitCancelled <=>
            \E i \in DOMAIN fields :
                fields[i].required /\ ~FieldVerdict(fields[i]).isValid)

\* a submit was cancelled although the last required field passes
C6_Witness ==
    /\ lastEvent = "submit"
    /\ submitCancelled
    /\ fields[1].required /\ ~FieldVerdict(fields[1]).isValid
    /\ fields[NumFields].required /\ FieldVerdict(fields[NumFields]).isValid

\* C7: after a submit, every required field whose trimmed value is empty
\* carries the required message, and the event is cancelled.
C7_AllEmptyRequiredFlagged ==
    lastEvent = "submit" =>
        \A i \in DOMAIN fields :
            FieldRequiredFails(fields[i]) =>
                (submitCancelled /\ CarriesError(i, RequiredMessage))

\* local@domain.tld: one "@", no white space, a non-empty local part and a
\* domain with a "." that has a character on each side
IsLocalAtDomainTld(v) ==
    /\ Cardinality({k \in 1..Len(v) : v[k] = "@"}) = 1
    /\ \A k \in 1..Len(v) : v[k] \notin Whitespace
    /\ \E a \in 2..Len(v), d \in 4..(Len(v) - 1) :
          /\ v[a] = "@"
          /\ v[d] = "."
          /\ d >= a + 2

IsBlank(v) == \A k \in 1..Len(v) : v[k] \in Whitespace

\* C8: after validateField, a required field with a blank value carries the
\* required message; an email field with a non-blank value that is not
\* local@domain.tld carries the invalid-email message; every other field
\* carries no error; and the two rules never fail together.
C8_ValidateFieldRules ==
    lastEvent = "blur" =>
        LET f == fields[1]
            blank == IsBlank(f.value)
        IN  /\ (f.required /\ blank) => CarriesError(1, RequiredMessage)
            /\ (f.type = "email" /\ ~blank
                    /\ ~IsLocalAtDomainTld(Trim(f.value)))
                  => CarriesError(1, EmailMessage)
            /\ (~(f.required /\ blank)
                    /\ ~(f.type = "email" /\ ~blank
                            /\ ~IsLocalAtDomainTld(Trim(f.value))))
                  => CarriesNoError(1)
            /\ ~(FieldRequiredFails(f) /\ FieldEmailFails(f))

\* an email field holding "a@a" was validated and carries the email message
C8_Witness ==
    /\ lastEvent = "blur"
    /\ fields[1].type = "email"
    /\ fields[1].value = <<"a", "@", "a">>
    /\ CarriesError(1, EmailMessage)

\* C9: no field ever has more than one error-text element, and after a
\* validation that fails the field has exactly one, holding the message of
\* that validation.
C9_OneErrorElement ==
    /\ \A i \in DOMAIN fields : ErrorCount(i) <= 1
    /\ (lastEvent = "blur" /\ ~FieldVerdict(fields[lastField]).isValid)
          => /\ ErrorCount(lastField) = 1
             /\ CarriesError(lastField,
                             FieldVerdict(fields[lastField]).errorMessage)

\* the error of field 1 was shown by a submit and again by a blur
C9_Witness ==
    /\ lastEvent = "blur"
    /\ lastField = 1
    /\ submitCancelled
    /\ FieldRequiredFails(fields[1])
    /\ ErrorCount(1) = 1
    /\ CarriesError(1, RequiredMessage)

\* a field none of whose error annotations is set
FieldIsClear(i) ==
    /\ fields[i].ariaInvalid = Null
    /\ fields[i].borderColor = ""
    /\ fields[i].describedBy = Null
    /\ getElementById(errorElements, ErrorId(fields[i])) = 0

FormNow == [fields |-> fields', errs |-> errorElements']

\* C11: when the error shown on a field is cleared, the field's annotations
\* (invalid mark, visual flag, described-by link, error text) are those it
\* had before the error was shown, also when it had a described-by
\* reference of its own.
C11_ShowThenClearRestores ==
    [][\A i \in DOMAIN fields :
          (fields[i].ariaInvalid = "true" /\ fields'[i].ariaInvalid # "true")
              => Annotations(FormNow, i) = shownFrom[i]]_vars

\* what a field shows of an error: its attributes and the text of the
\* element its aria-describedby refers to
ShownAnnotations(F, j) ==
    LET k == getElementById(F.errs, F.fields[j].describedBy)
    IN  [ariaInvalid |-> F.fields[j].ariaInvalid,
         borderColor |-> F.fields[j].borderColor,
         describedBy |-> F.fields[j].describedBy,
         errorText |-> IF k = 0 THEN Null ELSE F.errs[k].text]

\* C12: a blur on a field leaves it as validateField decides, an input
\* leaves it without error whatever its new value, and neither changes the
\* annotations of any other field.
C12_OnlyThatField ==
    [][\A i \in DOMAIN fields :
          (lastEvent' \in {"blur", "input"} /\ lastField' = i)
              => /\ lastEvent' = "input"
                    => Annotations(FormNow, i).ariaInvalid = Null
                       /\ Annotations(FormNow, i).errorText = Null
                 /\ lastEvent' = "blur"
                    => Annotations(FormNow, i).errorText =
                          IF FieldVerdict(fields[i]).isValid THEN Null
                          ELSE FieldVerdict(fields[i]).errorMessage
                 /\ \A j \in DOMAIN fields \ {i} :
                       ShownAnnotations(FormNow, j)
                          = ShownAnnotations(Form, j)]_vars

\* the error-text elements that were created for a field other than i
ElementsOfOthers(errs, i) ==
    {errs[k] : k \in {n \in 1..Len(errs) : errs[n].parent # i}}

\* C13: an event on one field never creates, overwrites or removes the
\* error-text element of another field, whatever the fields' ids.
C13_ErrorsByIdentity ==
    [][\A i \in DOMAIN fields :
          (lastEvent' \in {"blur", "input"} /\ lastField' = i)
              => ElementsOfOthers(errorElements', i)
                    = ElementsOfOthers(errorElements, i)]_vars

\* ------------------------------------------------- claims on the header
\* a step in which a requested updateNavigation runs
FrameRuns == rafPending' < rafPending

\* C14: each header update hides the header exactly when the offset it
\* samples is greater than the hero height and greater than the last
\* sampled offset, and records the sampled offset as the last offset.
C14_UpdatePolicy ==
    [][FrameRuns =>
          /\ navHidden' <=> (scrollY > heroHeight /\ scrollY > lastScrollY)
          /\ lastScrollY' = scrollY]_vars

\* an update hid the header while scrolling down past the hero
C14_Witness ==
    /\ lastEvent = "frame"
    /\ navHidden
    /\ scrollY > heroHeight
    /\ lastScrollY = scrollY

\* C15: at most one updateNavigation is pending, ticking is true exactly
\* while one is pending, and the update that runs records the offset
\* current at frame time, however many scroll events it stands for.
C15_OneUpdatePending ==
    /\ [](rafPending <= 1 /\ (ticking <=> rafPending = 1))
    /\ [][FrameRuns => (lastScrollY' = scrollY' /\ ~ticking')]_vars

\* one update ran for two scroll events
C15_Witness ==
    /\ lastEvent = "frame"
    /\ coalesced = 2
    /\ rafPending = 0
    /\ ~ticking
    /\ lastScrollY = scrollY

\* C16 as stated: whenever the offset is not greater than the hero height
\* the header is not hidden.
C16_ShownAboveHero == scrollY <= heroHeight => ~navHidden

\* C16 amended: whenever the offset sampled by the last header update is
\* not greater than the hero height the header is not hidden.
C16_ShownAboveHeroWhenSampled == lastScrollY <= heroHeight => ~navHidden

\* an update ran at an offset inside the hero and the header is shown
C16_Witness ==
    /\ lastEvent = "frame"
    /\ lastScrollY > 0
    /\ lastScrollY <= heroHeight
    /\ ~navHidden

\* C17 as stated: once the scroll down to twice the hero height has been
\* handled the header is hidden, and on the way back up the header is
\* shown again whenever the offset is 0.
C17_Scenario ==
    /\ (phase = "down" /\ scrollY = 2 * heroHeight /\ Settled) => navHidden
    /\ (phase = "up" /\ scrollY = 0) => ~navHidden

\* C17 amended: once the scroll down has been handled the header is
\* hidden; on the way back up it is shown from the first header update
\* that samples a smaller offset, at the latest the update that follows
\* the offset reaching 0.
C17_ScenarioByUpdate ==
    /\ (phase = "down" /\ scrollY = 2 * heroHeight /\ Settled) => navHidden
    /\ (phase = "up" /\ lastScrollY < 2 * heroHeight) => ~navHidden
    /\ (phase = "up" /\ scrollY = 0 /\ Settled) => ~navHidden

\* back at offset 0 after the way up, the header is shown
C17_Witness ==
    /\ phase = "up"
    /\ scrollY = 0
    /\ Settled
    /\ lastScrollY = 0
    /\ ~navHidden

\* ----------------------------------------------- claims on the carousel
PointerEvents == {"mouseenter", "mouseleave", "focusin", "focusout"}

\* C18: after each mouseenter, mouseleave, focusin or focusout event the
\* track animation is paused if the pointer is over the carousel or the
\* focus is inside it, and running if neither holds.
C18_PausedIffHoverOrFocus ==
    [][(lastEvent' \in PointerEvents /\ ~reducedMotion') =>
          /\ (hovering' \/ focusInside') => animationPlayState' = "paused"
          /\ ~(hovering' \/ focusInside')
                => animationPlayState' = "running"]_vars

\* C19: the track has no animation exactly while the reduced-motion
\* preference is active - at setup and after every change of it - and
\* while it is active the animation does not run, whatever hover and
\* focus events arrive.
C19_ReducedMotion ==
    /\ reducedMotion <=> animationName = "none"
    /\ reducedMotion => ~AnimationRuns
    /\ (~reducedMotion /\ lastEvent = "change") => AnimationRuns

\* the preference was active and a hover event came: still no animation
C19_Witness ==
    /\ reducedMotion
    /\ lastEvent = "mouseleave"
    /\ animationPlayState = "running"
    /\ animationName = "none"

\* C20: while the loop runs each pass appends one clone; a track with n
\* children ends with 2n children, the originals in their order followed
\* by a clone of each in the same order.
C20_DuplicatedOnce ==
    /\ cloneIndex <= logoCount
    /\ Len(trackChildren) = logoCount + cloneIndex
    /\ \A i \in 1..logoCount : trackChildren[i] = Original(i)
    /\ \A i \in 1..cloneIndex :
          trackChildren[logoCount + i] = cloneNode(Original(i))

\* the loop is over for a track that had two children or more
C20_Witness ==
    /\ SetupDone
    /\ logoCount >= 2
    /\ Len(trackChildren) = 2 * logoCount
    /\ lastEvent = "clone"

\* ------------------------------------------------ claims on the start
\* C21: init runs at most once, never while the document is loading, has
\* run once the document is complete and the script evaluated, and its
\* run wires every feature whose elements exist in the ready document.
C21_InitOnceAndComplete ==
    /\ initRuns <= 1
    /\ initRuns = 1 => docPhase # "parsing"
    /\ (evaluated /\ docPhase \in {"contentLoaded", "complete"})
          => initRuns = 1
    /\ initRuns = 1 =>
          \A feature \in Features :
              Needs(feature) \subseteq present => feature \in wired

\* C22: whatever elements are missing, no listener raises an exception,
\* and a feature whose element is missing leaves its state as the markup
\* has it.
C22_MissingElementsAreSilent ==
    /\ ~threw
    /\ "nav" \notin wired =>
          (~isMenuOpen /\ ariaExpanded = "false" /\ ~menuOpenClass)
    /\ "modal" \notin wired =>
          (modalDisplay = "" /\ modalAriaHidden = "true"
             /\ bodyOverflow = "" /\ timers = <<>> /\ pdfOpened = 0)

\* ------------------------------------------ claims on the navigation
NavState == <<isMenuOpen, ariaExpanded, menuOpenClass>>

NavClosed == <<FALSE, "false", FALSE>>

\* C23: while the menu is open an outside click closes it and Escape
\* closes it and leaves focus on the toggle control; a click inside the
\* container is not an outside click (a click on the toggle control just
\* toggles); with the menu closed both events leave the navigation as it
\* is.
C23_AutoClose ==
    [][/\ (isMenuOpen /\ lastEvent' = "OutsideClick") => NavState' = NavClosed
       /\ (isMenuOpen /\ lastEvent' = "Escape")
             => (NavState' = NavClosed /\ focused' = "navToggle")
       /\ lastEvent' = "InsideClick" => UNCHANGED <<NavState, focused>>
       /\ lastEvent' = "ToggleClick" => isMenuOpen' = ~isMenuOpen
       /\ (~isMenuOpen /\ lastEvent' \in {"OutsideClick", "Escape"})
             => UNCHANGED NavState]_vars

\* C24: a resize that ends at the desktop width or more closes the open
\* menu; a resize that ends below it, or that finds the menu closed,
\* leaves the navigation and the focus as they are.
C24_ResizeCloses ==
    [][lastEvent' = "Resize" =>
          /\ (isMenuOpen /\ innerWidth' >= DesktopWidth)
                => NavState' = NavClosed
          /\ (isMenuOpen /\ innerWidth' < DesktopWidth)
                => UNCHANGED NavState
          /\ ~isMenuOpen => UNCHANGED NavState
          /\ focused' = focused]_vars

\* the open menu was closed by a resize that crossed the threshold
C24_Witness ==
    /\ lastEvent = "Resize"
    /\ prevOpen
    /\ innerWidth >= DesktopWidth
    /\ NavState = NavClosed

\* C25: a toggle flips the flag; if the menu is then open the focus is on
\* the first menu entry when there is one and is not moved when there is
\* none; if the menu is then closed the focus is not moved.
C25_ToggleFlips ==
    [][lastEvent' \in {"ToggleClick", "ToggleTouchEnd"} =>
          /\ isMenuOpen' = ~isMenuOpen
          /\ (isMenuOpen' /\ "navLink" \in present)
                => focused' = "firstMenuItem"
          /\ (isMenuOpen' /\ "navLink" \notin present)
                => focused' = focused
          /\ ~isMenuOpen' => focused' = focused]_vars

\* the menu was opened on a page without menu entries: the focus stayed
\* on the toggle control, where an earlier Escape had put it
C25_Witness ==
    /\ lastEvent \in {"ToggleClick", "ToggleTouchEnd"}
    /\ isMenuOpen
    /\ ~prevOpen
    /\ "navLink" \notin present
    /\ focused = "navToggle"

\* ------------------------------------------- claims on the deferrals
\* C26: a submit of the embedded form is not cancelled and schedules one
\* deferred action and nothing else; the action, when it runs, opens the
\* document and then closes the modal; every scheduled action runs, so
\* the document is opened once per submit and the modal is closed.
C26_SubmitDefersOpenThenClose ==
    /\ [][lastEvent' = "SubscribeSubmit" =>
             /\ ~defaultPrevented'
             /\ timers' = Append(timers, "submit")
             /\ Delay("submit") = 1000
             /\ UNCHANGED <<modalDisplay, modalAriaHidden, bodyOverflow,
                            activeModalTrigger, focused, pdfOpened>>]_vars
    /\ [][lastEvent' = "SubmitTimerFire" =>
             /\ pdfOpened' = pdfOpened + 1
             /\ PendingSubmits(timers') = PendingSubmits(timers) - 1
             /\ effects' = <<"open", "closeModal">>
             /\ modalDisplay' = "none"]_vars
    /\ \A k \in 1..MaxSubmits :
          (pdfOpened + PendingSubmits(timers) >= k) ~> (pdfOpened >= k)
    /\ (PendingSubmits(timers) > 0)
          ~> (lastEvent = "SubmitTimerFire" /\ modalDisplay = "none")

\* two submits were made and the document has been opened twice
C26_Witness ==
    /\ lastEvent = "SubmitTimerFire"
    /\ pdfOpened = 2
    /\ PendingSubmits(timers) = 0
    /\ prevDisplay = "flex"
    /\ modalDisplay = "none"

TimerFires == {"FocusTimerFire", "SubmitTimerFire"}

\* C27: a scheduled action leaves the pending ones only by running, it
\* runs whatever the modal's state is by then, and every scheduled action
\* does run.
C27_NoCancellation ==
    /\ [][Len(timers') < Len(timers) =>
             (lastEvent' \in TimerFires /\ Len(timers') = Len(timers) - 1)]_vars
    /\ [][lastEvent' = "FocusTimerFire" => focused' = "firstInput"]_vars
    /\ [][lastEvent' = "SubmitTimerFire" =>
             (pdfOpened' = pdfOpened + 1 /\ modalDisplay' = "none")]_vars
    /\ (timers # <<>>) ~> (lastEvent \in TimerFires)

\* both deferred actions have fired stale: the post-submit action has just
\* run on a modal that was closed already, and the focus is on the
\* modal's first input although the modal is closed
C27_Witness ==
    /\ lastEvent = "SubmitTimerFire"
    /\ prevDisplay = "none"
    /\ modalDisplay = "none"
    /\ pdfOpened >= 1
    /\ focused = "firstInput"

\* ------------------------------------------- claims on the anchor links
TargetExists == Substring1(lastHref) \in targetIds

\* C28: a click on an anchor link whose target exists scrolls to it with
\* behavior 'auto' if the reduced-motion preference is set at the time of
\* the click and 'smooth' if it is not.
C28_ScrollBehavior ==
    (lastEvent = "AnchorClick" /\ TargetExists) =>
        /\ anchorLog # <<>>
        /\ anchorLog[1].call = "scrollIntoView"
        /\ reducedMotion => anchorLog[1].behavior = "auto"
        /\ ~reducedMotion => anchorLog[1].behavior = "smooth"

\* the preference was set after setup and the next click jumped
C28_Witness ==
    /\ lastEvent = "AnchorClick"
    /\ TargetExists
    /\ reducedMotion
    /\ anchorLog[1].behavior = "auto"

\* C30: a click on an anchor link is cancelled exactly when its target
\* exists; then the target is scrolled into view and after that focused
\* with preventScroll; otherwise nothing is scrolled or focused.
C30_AnchorClick ==
    lastEvent = "AnchorClick" =>
        /\ anchorPrevented <=> TargetExists
        /\ TargetExists =>
              /\ Len(anchorLog) = 2
              /\ anchorLog[1].call = "scrollIntoView"
              /\ anchorLog[1].target = Substring1(lastHref)
              /\ anchorLog[2] = [call |-> "focus",
                                 target |-> Substring1(lastHref),
                                 preventScroll |-> TRUE]
              /\ focused = "anchorTarget"
        /\ ~TargetExists => anchorLog = <<>>

\* a link whose target is missing was clicked after one whose target
\* exists: the event is left alone, the focus stays where it was
C30_Witness ==
    /\ lastEvent = "AnchorClick"
    /\ ~TargetExists
    /\ ~anchorPrevented
    /\ anchorLog = <<>>
    /\ focused = "anchorTarget"

\* --------------------------------------------- claims on the listeners
\* C29: no listener is running twice at once, whatever events the running
\* listeners dispatch through focus() and click(); a listener is started
\* from the event loop only when none is running.
C29_NoReentry ==
    /\ [](\A i, j \in 1..Len(stack) :
             i # j => stack[i].handler # stack[j].handler)
    /\ [][(stack # <<>> /\ Len(stack') > Len(stack)) =>
             \E call \in Calls(stack[Len(stack)].handler) :
                 \E d \in Dispatched(call) :
                     stack' = Append(stack, Running(d))]_vars

\* the deepest nesting: the card key listener clicks its link, the link's
\* anchor listener focuses the target, a form field loses the focus
C29_Witness ==
    /\ Len(stack) = 3
    /\ stack[1].handler = "cardKeydown"
    /\ stack[2].handler = "anchorClick"
    /\ stack[3].handler = "fieldBlur"

\* --------------------------------------------- claims on the cards
ActivationKey == lastKey = "Enter" \/ lastKey = " "

\* the card's listener did something with the last key press
CardHandlerActed == keyPrevented \/ linkClicks # prevClicks

\* C31: for a card that embeds a link, an Enter or Space key press on the
\* card itself activates the card's link exactly once; a key press that
\* comes from the link or from another element inside the card is not
\* acted on by the card's listener; any other key leaves the event
\* untouched.
C31_CardKeys ==
    (lastEvent = "CardKeydown" /\ cards[lastCard]) =>
        /\ (keyTarget = "card" /\ ActivationKey) =>
              linkClicks = [prevClicks EXCEPT ![lastCard] = @ + 1]
        /\ keyTarget # "card" => ~CardHandlerActed
        /\ ~ActivationKey => ~CardHandlerActed

\* ------------------------------------- claims on the modal's outputs
\* C32: in every reachable state the modal's three outputs agree: it is
\* displayed (display 'flex') exactly when aria-hidden is 'false' and
\* exactly when body overflow is 'hidden'; the page is never scroll-locked
\* with the modal closed.
C32_OutputsAgree ==
    /\ ModalOpen <=> (modalAriaHidden = "false")
    /\ ModalOpen <=> (bodyOverflow = "hidden")

\* the modal was opened through two openers in a row and closed once,
\* with deferred actions still pending: no scroll lock is left
C32_Witness ==
    /\ lastEvent \in {"CloseClick", "OverlayClick", "Escape",
                      "SubmitTimerFire"}
    /\ prevDisplay = "flex"
    /\ Cardinality(usedOpeners) >= 2
    /\ timers # <<>>
    /\ modalDisplay = "none"
    /\ modalAriaHidden = "true"
    /\ bodyOverflow = ""

\* ------------------------------- claims on the fields' annotations
\* the fields' ids are non-empty and differ from one another
DistinctIds ==
    \A i, j \in DOMAIN fields :
        /\ fields[i].id # ""
        /\ i # j => fields[i].id # fields[j].id

\* C33: after any sequence of submit, blur and input events on a form
\* whose fields have distinct non-empty ids, each field is marked
\* aria-invalid exactly when its error-text element exists, exactly when
\* its aria-describedby references that element, and exactly when its
\* visual flag is set.
C33_AnnotationsAgree ==
    DistinctIds =>
        \A i \in DOMAIN fields :
            LET marked == fields[i].ariaInvalid = "true"
                exists ==
                    getElementById(errorElements, ErrorId(fields[i])) # 0
                described == fields[i].describedBy = ErrorId(fields[i])
                flagged == fields[i].borderColor = CalloutColor
            IN  /\ marked <=> exists
                /\ marked <=> described
                /\ marked <=> flagged

\* an input event has just cleared the second field (the markup gave it a
\* description of its own) while the first keeps the error a submit or
\* blur showed
C33_Witness ==
    /\ Len(fields) >= 2
    /\ lastEvent = "input"
    /\ lastField = 2
    /\ submitCancelled
    /\ fields[1].ariaInvalid = "true"
    /\ fields[1].describedBy = ErrorId(fields[1])
    /\ fields[2].ariaInvalid = Null
    /\ fields[2].required
    /\ Len(errorElements) = 1

\* ------------------------------------- claims on the Escape listeners
\* C34: when the menu and the modal are both open, one Escape key press
\* is handled by both document key listeners in registration order: it
\* closes the menu and the modal, and because the navigation's listener
\* runs first, focus ends on the modal's recorded opener and not on the
\* menu toggle.
C34_EscapeClosesBoth ==
    [][(lastEvent' = "Escape" /\ isMenuOpen /\ ModalOpen) =>
          /\ ~isMenuOpen'
          /\ ariaExpanded' = "false"
          /\ modalDisplay' = "none"
          /\ activeModalTrigger \in Triggers
          /\ focused' = activeModalTrigger
          /\ focused' # "navToggle"
          /\ activeModalTrigger' = Null]_vars

\* Escape has just been pressed with menu and modal both open
C34_Witness ==
    /\ lastEvent = "Escape"
    /\ prevOpen
    /\ prevDisplay = "flex"
    /\ ~isMenuOpen
    /\ modalDisplay = "none"
    /\ focused = lastOpener

\* ------------------------------------- claims on the toggle's events
\* C35: one activation of the menu control changes the menu state exactly
\* once: a click flips it through the click listener; a touch flips it
\* through the touchend listener, which cancels the default action, so
\* that the click listener does not flip it a second time.
C35_OneToggle ==
    [][lastEvent' \in {"ToggleClick", "ToggleTouchEnd"} =>
          /\ isMenuOpen' = ~isMenuOpen
          /\ ariaExpanded' = BoolToString(~isMenuOpen)
          /\ menuOpenClass' = ~isMenuOpen
          /\ lastEvent' = "ToggleTouchEnd" => defaultPrevented'
          /\ lastEvent' = "ToggleClick" => ~defaultPrevented']_vars

\* a touch has just closed the menu that a click had opened
C35_Witness ==
    /\ lastEvent = "ToggleTouchEnd"
    /\ defaultPrevented
    /\ prevOpen
    /\ ~isMenuOpen
    /\ ariaExpanded = "false"

\* ------------------------------------- claims on repeated opening
\* C36: the modal keeps no open count: an opener activated while the
\* modal is open leaves it open, replaces the recorded opener with the
\* control just activated and schedules another deferred focus; one close
\* trigger then closes the modal and returns focus to the most recent
\* opener.
C36_NoOpenCount ==
    /\ [][(lastEvent' = "OpenerClick" /\ ModalOpen) =>
             /\ modalDisplay' = "flex"
             /\ activeModalTrigger' = lastOpener'
             /\ timers' = Append(timers, "focus")]_vars
    /\ [][(lastEvent' \in CloseTriggers /\ ModalOpen) =>
             /\ modalDisplay' = "none"
             /\ bodyOverflow' = ""
             /\ focused' = lastOpener
             /\ activeModalTrigger' = Null]_vars

\* an opener has just been activated with the modal open and another
\* opener recorded: two deferred focus actions are pending
C36_Witness ==
    /\ lastEvent = "OpenerClick"
    /\ prevDisplay = "flex"
    /\ modalDisplay = "flex"
    /\ Cardinality(usedOpeners) = 2
    /\ activeModalTrigger = lastOpener
    /\ timers = <<"focus", "focus">>

\* ------------------------------------- claims on the scroll updates
\* C37: no scroll update is lost: when every requested animation frame
\* runs, after any scroll event an updateNavigation eventually runs and
\* samples the offset the page then has, which is at least as recent as
\* that event; the ticking flag is set only while a frame is requested
\* and always returns to false; a scroll event handled with the flag
\* false requests a new update.
C37_NoUpdateLost ==
    /\ [](ticking => rafPending > 0)
    /\ (lastEvent = "scroll") ~>
          (lastEvent = "frame" /\ lastScrollY = scrollY /\ ~ticking)
    /\ ticking ~> ~ticking
    /\ [][(lastEvent' = "scroll" /\ ~ticking) =>
             (ticking' /\ rafPending' = rafPending + 1)]_vars

\* an update has just run for several scroll events handled since the
\* update before it, and sampled the current offset
C37_Witness ==
    /\ lastEvent = "frame"
    /\ coalesced >= 2
    /\ lastScrollY = scrollY
    /\ navHidden
    /\ ~ticking
    /\ rafPending = 0

\* ------------------------------------- claims on optional fields
\* field i is optional and holds a malformed address
OptionalMalformed(i) ==
    /\ ~fields[i].required
    /\ FieldEmailFails(fields[i])

\* C38: the submit decision depends only on the required fields: an
\* optional email field holding a malformed address does not cancel the
\* submission and is not validated again on submit, so an error shown on
\* it by an earlier blur stays displayed while the submission proceeds.
C38_OptionalFieldsIgnored ==
    [][lastEvent' = "submit" =>
          /\ submitCancelled' <=>
                \E i \in RequiredInputs(Form) :
                    ~FieldVerdict(fields[i]).isValid
          /\ \A i \in DOMAIN fields :
                OptionalMalformed(i) =>
                    /\ fields'[i] = fields[i]
                    /\ fields[i].ariaInvalid = "true" =>
                          Annotations([fields |-> fields',
                                       errs |-> errorElements'], i)
                              = Annotations(Form, i)]_vars

====
